---- MODULE Spec2Model ----
(***************************************************************************)
(* Waste-risk scoring of inventory batches (app/main.py, ScoreGenerator).  *)
(*                                                                         *)
(* Four specifications share the variables: Spec (one call after another   *)
(* of generate_score on one batch), SpecGen (runs of generate over two     *)
(* batches), SpecAlt (generate_batch_scores of app/models/scoring.py) and  *)
(* SpecBatch (generate_batch of app/models/batch.py).                      *)
(*                                                                         *)
(* Number representation.  Dates are day numbers, so (a - b).days is       *)
(* a - b.  Money is in cents.  Real-valued scores are carried in           *)
(* thousandths of a point ("milli") inside the calculate_* operators and   *)
(* in hundredths ("centi") in the score record, where the code applies     *)
(* round(x, 2).  Random fractions are in thousandths.                      *)
(*                                                                         *)
(* Floating point.  The products and sums of the economic and composite    *)
(* scores differ from their decimal values by less than 1e-13 and are      *)
(* rounded to two decimals in the record, so they are computed exactly     *)
(* here.  The velocity ratio is compared unrounded with 1.5, 1.0, 0.7 and  *)
(* 0.4; a ratio whose exact value lies on a threshold can come out one     *)
(* ulp below it (initial 3, current 0, 10 days, rate 0.1: 0.3 /            *)
(* 0.30000000000000004 < 1.0).  Float arithmetic is deterministic, so the   *)
(* sign of that rounding error is fixed by the operands: it is the         *)
(* variable float_err, chosen when the run is set up and the same in every *)
(* call.                                                                   *)
(***************************************************************************)
EXTENDS Integers, Sequences, FiniteSets, TLC

VARIABLES batches, product_lookup, store_lookup, scores, as_of_date, float_err,
          score, result, pc, _pool, pools, used, held, log

vars == <<batches, product_lookup, store_lookup, scores, as_of_date, float_err, score, result, pc, _pool, pools, used, held, log>>

-----------------------------------------------------------------------------
(* Bounds of the explored inputs *)

\* the as-of date of a scoring run ranges over -1 .. MaxDate
MaxDate == 12
\* latest expiry date of a batch (received_date is day 0)
MaxExpiry == 12
\* calls of generate are explored while self.scores, with one more score for
\* every batch, stays within MaxScores records
MaxScores == 4

AsOfDates == (0 - 1) .. MaxDate
ExpiryDates == {2, MaxExpiry}
InitialQuantities == {0, 3, 100, 600}
CurrentQuantities == {0, 20, 30, 40, 90, 100, 200, 600}
Prices == {100, 250, 300}
Products ==
    { [category |-> "dairy", subcategory |-> "milk"],
      [category |-> "dairy", subcategory |-> "cheese"],
      [category |-> "bakery", subcategory |-> "bread"],
      [category |-> "meat", subcategory |-> "beef"],
      [category |-> "produce", subcategory |-> "fruits"],
      [category |-> "seafood", subcategory |-> "fish"],
      [category |-> "dry_goods", subcategory |-> "pasta"],
      [category |-> "prepared_foods", subcategory |-> "meals"] }

-----------------------------------------------------------------------------
(* Arithmetic helpers *)

Max(a, b) == IF a >= b THEN a ELSE b
Min(a, b) == IF a <= b THEN a ELSE b

\* n points in thousandths of a point
Milli(n) == n * 1000

\* round(x, 2) of a value given in units of 1/(100*k): nearest hundredth,
\* ties to the even hundredth
Round2(x, k) ==
    LET q == x \div k
        r == x % k
    IN  IF 2 * r < k THEN q
        ELSE IF 2 * r > k THEN q + 1
        ELSE IF q % 2 = 0 THEN q ELSE q + 1

\* int(quantity * fraction) for a fraction in thousandths
IntOfProduct(quantity, fraction) == (quantity * fraction) \div 1000

\* None
None == [none |-> TRUE]

\* True and False as values a call returns, next to None and to objects
True == [bool |-> TRUE]

False == [bool |-> FALSE]

\* random.uniform(lo, hi): both ends and an interior point
Uniform(lo, hi) == {lo, lo + (hi - lo) \div 3, hi}

\* a / b on floats kept as fractions n/d; the quotient is subject to
\* rounding (exact = FALSE); d = 0 marks ZeroDivisionError
Quotient(a, b) ==
    IF b.n = 0 THEN [n |-> 0, d |-> 0, exact |-> FALSE]
    ELSE [n |-> a.n * b.d, d |-> a.d * b.n, exact |-> FALSE]

\* x >= t for a float x of decimal value x.n/x.d (x.d > 0) and a literal
\* t = tn/td; fp_err < 0 when a computed x came out below its decimal value
FloatGE(x, tn, td, fp_err) ==
    \/ x.n * td > tn * x.d
    \/ x.n * td = tn * x.d /\ (x.exact \/ fp_err >= 0)

-----------------------------------------------------------------------------
(* ScoreGenerator: the three sub-scores *)

\* calculate_urgency_score without the early return for expired batches
calculate_urgency_score_no_expired_branch(days_until_expiry, product_category) ==
    IF product_category \in {"dairy", "meat", "produce"}
    THEN Max(0, Milli(100 - days_until_expiry * 15))
    ELSE IF product_category = "bakery"
    THEN Max(0, Milli(100 - days_until_expiry * 25))
    ELSE Max(0, Milli(100 - days_until_expiry * 10))

\* calculate_urgency_score with prepared_foods decaying like bakery
calculate_urgency_score_prepared_as_bakery(days_until_expiry, product_category) ==
    IF days_until_expiry <= 0 THEN Milli(100)
    ELSE IF product_category \in {"dairy", "meat", "produce"}
         THEN Max(0, Milli(100 - days_until_expiry * 15))
    ELSE IF product_category \in {"bakery", "prepared_foods"}
         THEN Max(0, Milli(100 - days_until_expiry * 25))
    ELSE Max(0, Milli(100 - days_until_expiry * 10))

\* calculate_urgency_score without the max(0, ...) clamp of the last branch
calculate_urgency_score_unclamped(days_until_expiry, product_category) ==
    IF days_until_expiry <= 0 THEN Milli(100)
    ELSE IF product_category \in {"dairy", "meat", "produce"}
         THEN Max(0, Milli(100 - days_until_expiry * 15))
    ELSE IF product_category = "bakery"
         THEN Max(0, Milli(100 - days_until_expiry * 25))
    ELSE Milli(100 - days_until_expiry * 10)

calculate_urgency_score(days_until_expiry, product_category) ==
    IF days_until_expiry <= 0 THEN Milli(100)
    ELSE IF product_category \in {"dairy", "meat", "produce"}
         THEN Max(0, Milli(100 - days_until_expiry * 15))
    ELSE IF product_category = "bakery"
         THEN Max(0, Milli(100 - days_until_expiry * 25))
    ELSE Max(0, Milli(100 - days_until_expiry * 10))

\* base_score with >= in place of > at the breakpoints
base_score_inclusive(value_at_risk) ==
    IF value_at_risk >= 50000 THEN 90
    ELSE IF value_at_risk >= 20000 THEN 75
    ELSE IF value_at_risk >= 10000 THEN 60
    ELSE IF value_at_risk >= 5000 THEN 45
    ELSE IF value_at_risk >= 2000 THEN 30
    ELSE 15

\* base score by value at risk (in cents)
base_score(value_at_risk) ==
    IF value_at_risk > 50000 THEN 90
    ELSE IF value_at_risk > 20000 THEN 75
    ELSE IF value_at_risk > 10000 THEN 60
    ELSE IF value_at_risk > 5000 THEN 45
    ELSE IF value_at_risk > 2000 THEN 30
    ELSE 15

\* in tenths: 1.2, 1.1, 1.0, 0.8
expiry_factor(days_until_expiry) ==
    IF days_until_expiry <= 1 THEN 12
    ELSE IF days_until_expiry <= 3 THEN 11
    ELSE IF days_until_expiry <= 7 THEN 10
    ELSE 8

\* in tenths: 1.2, 1.1, 1.0
category_factor(product_category) ==
    IF product_category \in {"meat", "seafood"} THEN 12
    ELSE IF product_category \in {"dairy", "produce"} THEN 11
    ELSE 10

\* calculate_economic_risk_score without the min(100, score) clamp
calculate_economic_risk_score_unclamped(current_quantity, current_price, days_until_expiry, product_category) ==
    base_score(current_quantity * current_price)
        * expiry_factor(days_until_expiry)
        * category_factor(product_category) * 10

calculate_economic_risk_score(current_quantity, current_price, days_until_expiry, product_category) ==
    LET value_at_risk == current_quantity * current_price
        \* points * tenths * tenths = hundredths; * 10 = thousandths
        score_milli == base_score(value_at_risk)
                         * expiry_factor(days_until_expiry)
                         * category_factor(product_category) * 10
    IN  Min(Milli(100), score_milli)

\* expected daily sell rate as a fraction of units per day
expected_rate(initial_quantity, product_category) ==
    IF product_category \in {"dairy", "bakery"}
         /\ product_category \in {"milk", "bread"}
    THEN [n |-> initial_quantity * 20, d |-> 100]
    ELSE IF product_category \in {"meat", "produce"}
    THEN [n |-> initial_quantity * 15, d |-> 100]
    ELSE [n |-> initial_quantity * 10, d |-> 100]

\* sold_quantity with the operands exchanged
sold_quantity_negated(initial_quantity, current_quantity) ==
    current_quantity - initial_quantity

sold_quantity(initial_quantity, current_quantity) ==
    initial_quantity - current_quantity

\* velocity_ratio without the expected_rate == 0 substitution
velocity_ratio_unguarded(initial_quantity, current_quantity, days_on_shelf, product_category) ==
    Quotient([n |-> sold_quantity(initial_quantity, current_quantity),
              d |-> days_on_shelf],
             expected_rate(initial_quantity, product_category))

\* called with days_on_shelf > 0 only
velocity_ratio(initial_quantity, current_quantity, days_on_shelf, product_category) ==
    LET daily_sell_rate ==
            [n |-> sold_quantity(initial_quantity, current_quantity),
             d |-> days_on_shelf]
        rate == expected_rate(initial_quantity, product_category)
    IN  IF rate.n = 0 THEN [n |-> 1, d |-> 1, exact |-> TRUE]
        ELSE Quotient(daily_sell_rate, rate)

\* velocity_error of a calculate_velocity_score whose early return is taken
\* for days_on_shelf < 0 only, so that zero days are divided by
velocity_error_zero_days_divided(initial_quantity, current_quantity, days_on_shelf, product_category) ==
    IF days_on_shelf < 0 THEN "none"
    ELSE IF days_on_shelf = 0 THEN "ZeroDivisionError"
    ELSE IF velocity_ratio(initial_quantity, current_quantity,
                           days_on_shelf, product_category).d = 0
         THEN "ZeroDivisionError"
    ELSE "none"

\* the exception calculate_velocity_score raises, "none" when it returns
velocity_error(initial_quantity, current_quantity, days_on_shelf, product_category) ==
    IF days_on_shelf <= 0 THEN "none"
    ELSE IF velocity_ratio(initial_quantity, current_quantity,
                           days_on_shelf, product_category).d = 0
         THEN "ZeroDivisionError"
    ELSE "none"

calculate_velocity_score(initial_quantity, current_quantity, days_on_shelf, product_category, fp_err) ==
    IF days_on_shelf <= 0 THEN Milli(50)
    ELSE LET ratio == velocity_ratio(initial_quantity, current_quantity,
                                     days_on_shelf, product_category)
         IN  IF FloatGE(ratio, 15, 10, fp_err) THEN Milli(90)
             ELSE IF FloatGE(ratio, 10, 10, fp_err) THEN Milli(75)
             ELSE IF FloatGE(ratio, 7, 10, fp_err) THEN Milli(60)
             ELSE IF FloatGE(ratio, 4, 10, fp_err) THEN Milli(40)
             ELSE Milli(20)

-----------------------------------------------------------------------------
(* ScoreGenerator.generate_score *)

\* composite_score with the 0.4/0.3/0.3 weights of the alternate scorer
composite_score_alternate_weights(urgency_score, economic_risk_score, velocity_score) ==
    urgency_score * 4 + economic_risk_score * 3 + velocity_score * 3

\* composite_score with velocity weighted 0.4 as the other two are
composite_score_velocity_as_others(urgency_score, economic_risk_score, velocity_score) ==
    urgency_score * 4 + economic_risk_score * 4 + velocity_score * 4

\* composite in units of 1/10000 point
composite_score(urgency_score, economic_risk_score, velocity_score) ==
    urgency_score * 4 + economic_risk_score * 4 + velocity_score * 2

\* recommended_action with > in place of >= on the urgency thresholds
recommended_action_strict(urgency_score, velocity_score) ==
    IF urgency_score > Milli(90) THEN <<"immediate_markdown", 50>>
    ELSE IF urgency_score > Milli(70) THEN <<"mark_down", 30>>
    ELSE IF urgency_score > Milli(50) THEN <<"display_prominently", 20>>
    ELSE IF velocity_score <= Milli(30) THEN <<"promotional_bundle", 15>>
    ELSE <<"monitor", 0>>

\* <<recommended_action, suggested_discount>>
recommended_action(urgency_score, velocity_score) ==
    IF urgency_score >= Milli(90) THEN <<"immediate_markdown", 50>>
    ELSE IF urgency_score >= Milli(70) THEN <<"mark_down", 30>>
    ELSE IF urgency_score >= Milli(50) THEN <<"display_prominently", 20>>
    ELSE IF velocity_score <= Milli(30) THEN <<"promotional_bundle", 15>>
    ELSE <<"monitor", 0>>

\* waste_percent_range with the bakery/produce and dairy/meat ranges
\* exchanged
waste_percent_range_exchanged(days_until_expiry, category) ==
    IF days_until_expiry <= 0 THEN <<0, 0>>
    ELSE IF days_until_expiry <= 3 THEN
        IF category \in {"dairy", "meat"} THEN <<700, 900>>
        ELSE IF category \in {"bakery", "produce"} THEN <<500, 700>>
        ELSE <<300, 500>>
    ELSE IF days_until_expiry <= 7 THEN
        IF category \in {"dairy", "meat"} THEN <<400, 600>>
        ELSE IF category \in {"bakery", "produce"} THEN <<200, 400>>
        ELSE <<100, 200>>
    ELSE <<50, 150>>

\* the range random.uniform draws waste_percent from, <<0, 0>> when the
\* batch is expired and nothing is drawn
waste_percent_range(days_until_expiry, category) ==
    IF days_until_expiry <= 0 THEN <<0, 0>>
    ELSE IF days_until_expiry <= 3 THEN
        IF category \in {"bakery", "produce"} THEN <<700, 900>>
        ELSE IF category \in {"dairy", "meat"} THEN <<500, 700>>
        ELSE <<300, 500>>
    ELSE IF days_until_expiry <= 7 THEN
        IF category \in {"bakery", "produce"} THEN <<400, 600>>
        ELSE IF category \in {"dairy", "meat"} THEN <<200, 400>>
        ELSE <<100, 200>>
    ELSE <<50, 150>>

\* the range random.uniform draws confidence_level from; the fixed 0.95
\* when the batch is expired
confidence_range(days_until_expiry) ==
    IF days_until_expiry <= 0 THEN <<950, 950>>
    ELSE IF days_until_expiry <= 3 THEN <<800, 900>>
    ELSE IF days_until_expiry <= 7 THEN <<700, 800>>
    ELSE <<600, 700>>

\* predicted_waste_quantity with the drawn fraction applied twice over
predicted_waste_quantity_doubled(current_quantity, days_until_expiry, waste_percent) ==
    IF days_until_expiry <= 0 THEN current_quantity
    ELSE IntOfProduct(current_quantity, 2 * waste_percent)

predicted_waste_quantity(current_quantity, days_until_expiry, waste_percent) ==
    IF days_until_expiry <= 0 THEN current_quantity
    ELSE IntOfProduct(current_quantity, waste_percent)

\* generate_score with the composite scaled by the drawn confidence
generate_score_confidence_weighted(batch, current_date, lookup, rnd) ==
    LET product == lookup[batch.product_id]
        days_until_expiry == batch.expiry_date - current_date
        days_on_shelf == current_date - batch.received_date
        urgency_score ==
            calculate_urgency_score(days_until_expiry, product.category)
        economic_risk_score ==
            calculate_economic_risk_score(batch.current_quantity,
                batch.current_price, days_until_expiry, product.category)
        velocity_score ==
            calculate_velocity_score(batch.initial_quantity,
                batch.current_quantity, days_on_shelf, product.category,
                rnd.fp_err)
        composite ==
            (composite_score(urgency_score, economic_risk_score,
                             velocity_score) * rnd.confidence_level) \div 1000
        action == recommended_action(urgency_score, velocity_score)
        waste_quantity ==
            predicted_waste_quantity(batch.current_quantity,
                days_until_expiry, rnd.waste_percent)
    IN  [ batch_id |-> batch.batch_id,
          store_id |-> batch.store_id,
          urgency_score |-> Round2(urgency_score, 10),
          economic_risk_score |-> Round2(economic_risk_score, 10),
          velocity_score |-> Round2(velocity_score, 10),
          composite_score |-> Round2(composite, 100),
          days_until_expiry |-> days_until_expiry,
          revenue_at_risk |-> batch.current_quantity * batch.current_price,
          recommended_action |-> action[1],
          suggested_discount_percent |-> action[2],
          predicted_waste_quantity |-> waste_quantity,
          predicted_waste_value |-> waste_quantity * batch.current_price,
          confidence_level |-> Round2(rnd.confidence_level, 10),
          scored_at |-> current_date,
          valid_until |-> current_date + 1 ]

\* generate_score with the action table keyed on the composite score in
\* place of the urgency score
generate_score_action_on_composite(batch, current_date, lookup, rnd) ==
    LET product == lookup[batch.product_id]
        days_until_expiry == batch.expiry_date - current_date
        days_on_shelf == current_date - batch.received_date
        urgency_score ==
            calculate_urgency_score(days_until_expiry, product.category)
        economic_risk_score ==
            calculate_economic_risk_score(batch.current_quantity,
                batch.current_price, days_until_expiry, product.category)
        velocity_score ==
            calculate_velocity_score(batch.initial_quantity,
                batch.current_quantity, days_on_shelf, product.category,
                rnd.fp_err)
        composite ==
            composite_score(urgency_score, economic_risk_score, velocity_score)
        action == recommended_action(composite \div 10, velocity_score)
        waste_quantity ==
            predicted_waste_quantity(batch.current_quantity,
                days_until_expiry, rnd.waste_percent)
    IN  [ batch_id |-> batch.batch_id,
          store_id |-> batch.store_id,
          urgency_score |-> Round2(urgency_score, 10),
          economic_risk_score |-> Round2(economic_risk_score, 10),
          velocity_score |-> Round2(velocity_score, 10),
          composite_score |-> Round2(composite, 100),
          days_until_expiry |-> days_until_expiry,
          revenue_at_risk |-> batch.current_quantity * batch.current_price,
          recommended_action |-> action[1],
          suggested_discount_percent |-> action[2],
          predicted_waste_quantity |-> waste_quantity,
          predicted_waste_value |-> waste_quantity * batch.current_price,
          confidence_level |-> Round2(rnd.confidence_level, 10),
          scored_at |-> current_date,
          valid_until |-> current_date + 1 ]

\* rnd = [waste_percent, confidence_level, fp_err]: the values the random
\* source delivers during the call and the rounding of the float division
generate_score(batch, current_date, lookup, rnd) ==
    LET product == lookup[batch.product_id]
        days_until_expiry == batch.expiry_date - current_date
        days_on_shelf == current_date - batch.received_date
        urgency_score ==
            calculate_urgency_score(days_until_expiry, product.category)
        economic_risk_score ==
            calculate_economic_risk_score(batch.current_quantity,
                batch.current_price, days_until_expiry, product.category)
        velocity_score ==
            calculate_velocity_score(batch.initial_quantity,
                batch.current_quantity, days_on_shelf, product.category,
                rnd.fp_err)
        composite ==
            composite_score(urgency_score, economic_risk_score, velocity_score)
        action == recommended_action(urgency_score, velocity_score)
        waste_quantity ==
            predicted_waste_quantity(batch.current_quantity,
                days_until_expiry, rnd.waste_percent)
    IN  [ batch_id |-> batch.batch_id,
          store_id |-> batch.store_id,
          urgency_score |-> Round2(urgency_score, 10),
          economic_risk_score |-> Round2(economic_risk_score, 10),
          velocity_score |-> Round2(velocity_score, 10),
          composite_score |-> Round2(composite, 100),
          days_until_expiry |-> days_until_expiry,
          revenue_at_risk |-> batch.current_quantity * batch.current_price,
          recommended_action |-> action[1],
          suggested_discount_percent |-> action[2],
          predicted_waste_quantity |-> waste_quantity,
          predicted_waste_value |-> waste_quantity * batch.current_price,
          confidence_level |-> Round2(rnd.confidence_level, 10),
          scored_at |-> current_date,
          valid_until |-> current_date + 1 ]

\* the exception generate_score propagates, "none" when it returns
generate_score_error(batch, current_date, lookup) ==
    velocity_error(batch.initial_quantity, batch.current_quantity,
                   current_date - batch.received_date,
                   lookup[batch.product_id].category)

\* the rounding errors the division of calculate_velocity_score can have
\* for this batch: a quotient whose decimal value lies on a threshold may
\* come out below it, any other compares as its decimal value does
FloatErrors(batch, current_date, lookup) ==
    LET days_on_shelf == current_date - batch.received_date
        ratio == velocity_ratio(batch.initial_quantity,
                     batch.current_quantity, days_on_shelf,
                     lookup[batch.product_id].category)
    IN  IF /\ days_on_shelf > 0
           /\ ratio.d # 0
           /\ ~ratio.exact
           /\ \E t \in {15, 10, 7, 4} : ratio.n * 10 = t * ratio.d
        THEN {0 - 1, 0}
        ELSE {0}

\* what the random source can deliver in one call; err is the rounding of
\* the float division, which the operands determine
RandomDraws(batch, current_date, lookup, err) ==
    LET days_until_expiry == batch.expiry_date - current_date
        wr == waste_percent_range(days_until_expiry,
                                  lookup[batch.product_id].category)
        cr == confidence_range(days_until_expiry)
    IN  [ waste_percent : Uniform(wr[1], wr[2]),
          confidence_level : Uniform(cr[1], cr[2]),
          fp_err : {err} ]

-----------------------------------------------------------------------------
(* The scorer as a state machine *)

NoScore == [none |-> TRUE]

\* ScoreGenerator.__init__ over one batch of one product, and the as-of date
\* of the run (END_DATE in main)
Init ==
    \E product \in Products, initial \in InitialQuantities,
       current \in CurrentQuantities, price \in Prices,
       expiry \in ExpiryDates :
        /\ current <= initial
        /\ batches = << [ batch_id |-> 1,
                          store_id |-> 1,
                          product_id |-> 1000,
                          initial_quantity |-> initial,
                          current_quantity |-> current,
                          received_date |-> 0,
                          expiry_date |-> expiry,
                          current_price |-> price,
                          status |-> "active" ] >>
        /\ product_lookup = [id \in {1000} |-> product]
        /\ store_lookup = [id \in {1} |-> [store_type |-> "grocery"]]
        /\ scores = << >>
        /\ as_of_date \in AsOfDates
        /\ float_err \in FloatErrors(batches[1], as_of_date, product_lookup)
        /\ score = NoScore
        /\ result = NoScore
        /\ pc = "idle"
        /\ _pool = None
        /\ pools = << >>
        /\ used = 0
        /\ held = 0
        /\ log = << >>

\* GenerateScore of a generate_score that appends its record to self.scores
GenerateScore_appending(i) ==
    /\ IF generate_score_error(batches[i], as_of_date, product_lookup)
            # "none"
       THEN /\ pc' = "raised"
            /\ score' = NoScore
            /\ scores' = scores
       ELSE \E rnd \in RandomDraws(batches[i], as_of_date, product_lookup,
                                    float_err) :
            /\ pc' = "returned"
            /\ score' = generate_score(batches[i], as_of_date,
                                       product_lookup, rnd)
            /\ scores' = Append(scores, score')
    /\ UNCHANGED <<batches, product_lookup, store_lookup, as_of_date,
                   float_err, result, _pool, pools, used, held, log>>

\* one call generate_score(batches[i], current_date) of the run
GenerateScore(i) ==
    /\ IF generate_score_error(batches[i], as_of_date, product_lookup)
            # "none"
       THEN /\ pc' = "raised"
            /\ score' = NoScore
       ELSE \E rnd \in RandomDraws(batches[i], as_of_date, product_lookup,
                                    float_err) :
            /\ pc' = "returned"
            /\ score' = generate_score(batches[i], as_of_date,
                                       product_lookup, rnd)
    /\ UNCHANGED <<batches, product_lookup, store_lookup, scores, as_of_date,
                   float_err, result, _pool, pools, used, held, log>>

Next ==
    \E i \in 1 .. Len(batches) : GenerateScore(i)

Spec == Init /\ [][Next]_vars

-----------------------------------------------------------------------------
(* ScoreGenerator.generate: one scoring run over self.batches *)

\* the outcomes of the loop of generate over the batches bs, entered with
\* self.scores = self_scores: self.scores afterwards and the exception that
\* ended the loop ("none" when generate returns self.scores)
RECURSIVE generate(_, _, _, _, _)
generate(bs, current_date, lookup, err, self_scores) ==
    IF bs = << >> THEN {[scores |-> self_scores, error |-> "none"]}
    ELSE LET batch == Head(bs)
         IN  IF batch.status = "active" /\ batch.current_quantity > 0
             THEN IF generate_score_error(batch, current_date, lookup)
                        # "none"
                  THEN {[scores |-> self_scores,
                         error |-> generate_score_error(batch, current_date,
                                                        lookup)]}
                  ELSE UNION { generate(Tail(bs), current_date, lookup, err,
                                   Append(self_scores,
                                          generate_score(batch, current_date,
                                                         lookup, rnd))) :
                               rnd \in RandomDraws(batch, current_date,
                                                   lookup, err) }
             ELSE generate(Tail(bs), current_date, lookup, err, self_scores)

\* as-of dates of the runs: before and after the earlier expiry date
GenDates == {1, 3}

\* the batches of the runs: single units that are scored (active, one left)
\* in every combination of size, price, expiry and product, and one batch
\* of each kind that is skipped (marked down, or nothing left)
GenBatches ==
    { b \in [ initial_quantity : {1, 2},
              current_quantity : {0, 1},
              current_price : {100, 2500},
              expiry_date : ExpiryDates,
              status : {"active", "marked_down"},
              product_id : {1000, 1001} ] :
        (b.status # "active" \/ b.current_quantity = 0) =>
            /\ b.initial_quantity = 1
            /\ b.current_price = 100
            /\ b.expiry_date = 2
            /\ b.product_id = 1000 }

\* the batch record of b with its identity
BatchRecord(b, id) ==
    [ batch_id |-> id,
      store_id |-> 1,
      product_id |-> b.product_id,
      initial_quantity |-> b.initial_quantity,
      current_quantity |-> b.current_quantity,
      received_date |-> 0,
      expiry_date |-> b.expiry_date,
      current_price |-> b.current_price,
      status |-> b.status ]

\* ScoreGenerator.__init__ over two batches of two products
InitGen ==
    \E b1 \in GenBatches, b2 \in GenBatches :
        /\ batches = << BatchRecord(b1, 1), BatchRecord(b2, 2) >>
        /\ product_lookup =
              [id \in {1000, 1001} |->
                  IF id = 1000
                  THEN [category |-> "dairy", subcategory |-> "milk"]
                  ELSE [category |-> "meat", subcategory |-> "beef"]]
        /\ store_lookup = [id \in {1} |-> [store_type |-> "grocery"]]
        /\ scores = << >>
        /\ as_of_date \in GenDates
        /\ float_err \in
              {e \in {0 - 1, 0} :
                  \A i \in 1 .. Len(batches) :
                      e \in FloatErrors(batches[i], as_of_date,
                                        product_lookup)}
        /\ score = NoScore
        /\ result = NoScore
        /\ pc = "idle"
        /\ _pool = None
        /\ pools = << >>
        /\ used = 0
        /\ held = 0
        /\ log = << >>

\* one call generate(current_date); result is the list it returns
Generate ==
    /\ Len(scores) + Len(batches) <= MaxScores
    /\ \E out \in generate(batches, as_of_date, product_lookup, float_err,
                            scores) :
          /\ scores' = out.scores
          /\ IF out.error = "none"
             THEN /\ pc' = "generated"
                  /\ result' = out.scores
             ELSE /\ pc' = "raised"
                  /\ result' = [error |-> out.error]
    /\ UNCHANGED <<batches, product_lookup, store_lookup, as_of_date,
                   float_err, score, _pool, pools, used, held, log>>

NextGen == Generate

SpecGen == InitGen /\ [][NextGen]_vars

-----------------------------------------------------------------------------
(* The alternate scorer of app/models/scoring.py.  Its scores are not        *)
(* rounded: urgency is an integer number of points, economic risk is in      *)
(* thousandths of a point, velocity is the fraction n/d of a point with      *)
(* d = max(1, days_since_received), and the composite is the fraction n/d    *)
(* with d = 100000 * max(1, days_since_received).                            *)

\* BatchScore.calculate_urgency_score, in points
BatchScore_calculate_urgency_score(days_until_expiry, product_category) ==
    IF product_category \in {"dairy", "meat", "produce"}
    THEN Max(0, 100 - days_until_expiry * 15)
    ELSE IF product_category \in {"bakery", "prepared_foods"}
    THEN Max(0, 100 - days_until_expiry * 25)
    ELSE Max(0, 100 - days_until_expiry * 10)

\* self.category_weights.get(category, 1.0), in tenths
category_weight(product_category) ==
    CASE product_category = "dairy" -> 12
      [] product_category = "meat" -> 13
      [] product_category = "produce" -> 11
      [] product_category = "bakery" -> 9
      [] product_category = "prepared_foods" -> 10
      [] product_category = "shelf_stable" -> 7
      [] OTHER -> 10

\* min(100, (revenue_at_risk / 1000) * 100) in thousandths of a point, for
\* a revenue in cents
alt_economic(revenue_at_risk) == Min(Milli(100), revenue_at_risk)

\* min(100, (initial_delta / max(1, days_since_received)) * 20)
alt_velocity(initial_delta, days_since_received) ==
    LET days == Max(1, days_since_received)
    IN  [n |-> Min(100 * days, initial_delta * 20), d |-> days]

\* the weighted composite cut off at 100
alt_composite_clamped(urgency, economic, velocity, product_category) ==
    LET n == (4000 * urgency * velocity.d + 3 * economic * velocity.d
                 + 3000 * velocity.n) * category_weight(product_category)
    IN  [n |-> Min(n, 100 * 100000 * velocity.d), d |-> 100000 * velocity.d]

\* (urgency * 0.4 + economic * 0.3 + velocity * 0.3) * category_weight
alt_composite(urgency, economic, velocity, product_category) ==
    [n |-> (4000 * urgency * velocity.d + 3 * economic * velocity.d
               + 3000 * velocity.n) * category_weight(product_category),
     d |-> 100000 * velocity.d]

\* FloatGT with >= in place of >
FloatGT_inclusive(x, t) == x.n >= t * x.d

\* x > t for a float x of decimal value x.n/x.d and an integer literal t.
\* The composites of decimal value 70 over the explored batches are
\* computed as 70.0 or just below it, never above, so the comparison is
\* that of the decimal values.
FloatGT(x, t) == x.n > t * x.d

\* <<quotient, remainder>> of quantity * n by m for 0 <= n <= m, without
\* forming the product
RECURSIVE MulDiv(_, _, _)
MulDiv(quantity, n, m) ==
    IF quantity = 0 THEN <<0, 0>>
    ELSE LET half == MulDiv(quantity \div 2, n, m)
             r == 2 * half[2] + (quantity % 2) * n
         IN  <<2 * half[1] + r \div m, r % m>>

\* int(current_quantity * min(1.0, composite / 100))
alt_predicted_quantity(current_quantity, composite) ==
    MulDiv(current_quantity, Min(composite.n, 100 * composite.d),
           100 * composite.d)[1]

\* the BatchScore the loop of generate_batch_scores builds for one batch;
\* accuracy_score is in hundredths, confidence_level in ten-thousandths
batch_score(batch, current_date, product, store) ==
    LET days_until_expiry == batch.expiry_date - current_date
        urgency ==
            BatchScore_calculate_urgency_score(days_until_expiry,
                                               product.category)
        revenue_at_risk == batch.current_quantity * batch.current_price
        economic == alt_economic(revenue_at_risk)
        initial_delta == batch.initial_quantity - batch.current_quantity
        days_since_received == current_date - batch.received_date
        velocity == alt_velocity(initial_delta, days_since_received)
        composite ==
            alt_composite(urgency, economic, velocity, product.category)
        discount == FloatGT(composite, 70)
        predicted_quantity ==
            IF discount
            THEN alt_predicted_quantity(batch.current_quantity, composite)
            ELSE 0
    IN  [ batch_id |-> batch.batch_id,
          store_id |-> batch.store_id,
          urgency_score |-> urgency,
          economic_risk_score |-> economic,
          velocity_score |-> velocity,
          composite_score |-> composite,
          days_until_expiry |-> days_until_expiry,
          revenue_at_risk |-> revenue_at_risk,
          recommended_action |-> IF discount THEN "DISCOUNT" ELSE "MONITOR",
          suggested_discount_percent |->
              IF discount
              THEN Min(50 * composite.d, composite.n - 20 * composite.d)
                       \div composite.d
              ELSE None,
          predicted_waste_quantity |-> predicted_quantity,
          predicted_waste_value |-> predicted_quantity * batch.current_price,
          confidence_level |-> 8000 + store.accuracy_score * 15 ]

\* the list generate_batch_scores returns
generate_batch_scores(bs, current_date, lookup, stores) ==
    [i \in 1 .. Len(bs) |->
        batch_score(bs[i], current_date, lookup[bs[i].product_id],
                    stores[bs[i].store_id])]

\* the as-of dates of the alternate scorer: before, on and after
\* received_date, after the earlier expiry date and at the end
AltDates == {0 - 1, 0, 1, 3, MaxDate}

\* store accuracy, in hundredths
AccuracyScores == {0, 100}

\* scoring.ScoreGenerator.__init__ over one batch of one product and store
InitAlt ==
    \E product \in Products, initial \in InitialQuantities,
       current \in CurrentQuantities, price \in Prices,
       expiry \in ExpiryDates, accuracy \in AccuracyScores :
        /\ current <= initial
        /\ batches = << [ batch_id |-> 1,
                          store_id |-> 1,
                          product_id |-> 1000,
                          initial_quantity |-> initial,
                          current_quantity |-> current,
                          received_date |-> 0,
                          expiry_date |-> expiry,
                          current_price |-> price,
                          status |-> "active" ] >>
        /\ product_lookup = [id \in {1000} |-> product]
        /\ store_lookup =
              [id \in {1} |-> [store_type |-> "grocery",
                               accuracy_score |-> accuracy]]
        /\ scores = << >>
        /\ as_of_date \in AltDates
        /\ float_err = 0
        /\ score = NoScore
        /\ result = NoScore
        /\ pc = "idle"
        /\ _pool = None
        /\ pools = << >>
        /\ used = 0
        /\ held = 0
        /\ log = << >>

\* one call generate_batch_scores(current_date); result is the returned list
GenerateBatchScores ==
    /\ pc = "idle"
    /\ pc' = "scored"
    /\ result' = generate_batch_scores(batches, as_of_date, product_lookup,
                                       store_lookup)
    /\ UNCHANGED <<batches, product_lookup, store_lookup, scores, as_of_date,
                   float_err, score, _pool, pools, used, held, log>>

NextAlt == GenerateBatchScores

SpecAlt == InitAlt /\ [][NextAlt]_vars

-----------------------------------------------------------------------------
(* BatchGenerator.generate_batch of app/models/batch.py (app/main.py has     *)
(* the same code).  The record holds the fields the scorers and the          *)
(* ProductBatch validators read; lot codes and locations are left out.       *)
(* Rates and remaining_percent are in ten-thousandths.                       *)

\* high turnover: milk and bread
high_turnover(product) ==
    /\ product.category \in {"dairy", "bakery"}
    /\ product.subcategory \in {"milk", "bread"}

\* the range random.randint draws the base initial_quantity from
initial_quantity_range(product) ==
    IF high_turnover(product) THEN <<50, 200>>
    ELSE IF product.category \in {"meat", "produce", "dairy"}
    THEN <<20, 100>>
    ELSE <<5, 50>>

\* initial_quantity after the adjustment to the store type
store_quantity(store, product, quantity) ==
    IF store.store_type = "convenience" THEN Max(5, quantity \div 2)
    ELSE IF store.store_type = "pet_food" /\ product.category # "pet_food"
    THEN Max(5, (quantity * 3) \div 10)
    ELSE quantity

\* int(max_days_ago) = int(min(30, typical_shelf_life_days * 0.7))
max_days_ago(product) == Min(30, (product.typical_shelf_life_days * 7) \div 10)

\* days_ago; rnd.problem_days and rnd.days_ago are the randint draws
days_ago(product, is_problem_case, rnd) ==
    IF is_problem_case
    THEN product.typical_shelf_life_days - rnd.problem_days
    ELSE rnd.days_ago

\* int(typical_shelf_life_days * shelf_life_variation * supplier_factor)
\* with supplier_factor = 0.8 + reliability_score * 0.2; the variation is in
\* thousandths and the reliability in hundredths
shelf_life_days(product, rnd) ==
    (product.typical_shelf_life_days * rnd.shelf_life_variation
        * (800 + rnd.reliability_score * 2)) \div 1000000

\* round(original_price * tenths / 10, 2) in cents; a product halfway
\* between two cents goes where the float falls (round_up)
markdown_price(original_price, tenths, round_up) ==
    LET q == (original_price * tenths) \div 10
        r == (original_price * tenths) % 10
    IN  IF r < 5 THEN q
        ELSE IF r > 5 THEN q + 1
        ELSE IF round_up THEN q + 1 ELSE q

\* current_price without the 10% markdown of the last week
current_price_no_week_markdown(original_price, days_until_expiry, round_up) ==
    IF days_until_expiry <= 1
    THEN markdown_price(original_price, 5, round_up)
    ELSE IF days_until_expiry <= 3
    THEN markdown_price(original_price, 7, round_up)
    ELSE original_price

\* current_price by days_until_expiry
current_price(original_price, days_until_expiry, round_up) ==
    IF days_until_expiry <= 1
    THEN markdown_price(original_price, 5, round_up)
    ELSE IF days_until_expiry <= 3
    THEN markdown_price(original_price, 7, round_up)
    ELSE IF days_until_expiry <= 7
    THEN markdown_price(original_price, 9, round_up)
    ELSE original_price

\* the range random.uniform draws daily_sell_rate from, in thousandths
daily_sell_rate_range(product) ==
    IF high_turnover(product) THEN <<150, 250>>
    ELSE IF product.category \in {"meat", "produce"} THEN <<100, 200>>
    ELSE <<50, 100>>

\* remaining_percent without the lower bound 0
remaining_percent_unbounded(days_on_shelf, is_problem_case, rnd) ==
    10000 - days_on_shelf
               * (IF is_problem_case THEN rnd.daily_sell_rate * 5
                  ELSE rnd.daily_sell_rate * 10)

\* max(0, 1 - days_on_shelf * daily_sell_rate), the rate halved for a
\* problem case
remaining_percent(days_on_shelf, is_problem_case, rnd) ==
    Max(0, 10000 - days_on_shelf
                      * (IF is_problem_case THEN rnd.daily_sell_rate * 5
                         ELSE rnd.daily_sell_rate * 10))

\* int(initial_quantity * remaining_percent); a float product whose decimal
\* value is a whole number can come out just below it (200 * (1 - 5 * 0.183)
\* gives 16), which is the case below
remaining_quantity(initial_quantity, remaining, below) ==
    LET product == initial_quantity * remaining
    IN  IF /\ product % 10000 = 0
           /\ remaining \notin {0, 10000}
           /\ below
        THEN product \div 10000 - 1
        ELSE product \div 10000

\* the batch generate_batch returns; rnd holds the values the random source
\* delivers: initial_quantity, problem_days, days_ago, shelf_life_variation,
\* reliability_score (of the supplier chosen), days_until_expiry,
\* original_price (of the cost and markup drawn), round_up,
\* daily_sell_rate, quantity_below, last_movement; round_up and
\* quantity_below are the directions of the float roundings
generate_batch(store, product, current_date, is_problem_case, rnd) ==
    LET initial_quantity ==
            store_quantity(store, product, rnd.initial_quantity)
        received_date ==
            current_date - days_ago(product, is_problem_case, rnd)
        expiry_date ==
            IF is_problem_case THEN current_date + rnd.days_until_expiry
            ELSE received_date + shelf_life_days(product, rnd)
        days_until_expiry == expiry_date - current_date
        price ==
            current_price(rnd.original_price, days_until_expiry, rnd.round_up)
        days_on_shelf == current_date - received_date
        current_quantity ==
            IF days_until_expiry < 0 THEN 0
            ELSE remaining_quantity(initial_quantity,
                     remaining_percent(days_on_shelf, is_problem_case, rnd),
                     rnd.quantity_below)
        status ==
            IF days_until_expiry < 0 THEN "expired"
            ELSE IF price < rnd.original_price THEN "marked_down"
            ELSE "active"
    IN  [ batch_id |-> 1,
          store_id |-> store.store_id,
          product_id |-> product.product_id,
          initial_quantity |-> initial_quantity,
          current_quantity |-> current_quantity,
          received_date |-> received_date,
          expiry_date |-> expiry_date,
          current_price |-> price,
          original_price |-> rnd.original_price,
          status |-> status,
          last_movement_date |->
              current_date - Min(rnd.last_movement, Min(5, days_on_shelf)) ]

\* the exception generate_batch raises, "none" when it returns: randint
\* over an empty range (ValueError), days_on_shelf read where the expired
\* branch left it unassigned (UnboundLocalError)
generate_batch_error(store, product, current_date, is_problem_case, rnd) ==
    IF ~is_problem_case /\ max_days_ago(product) < 1 THEN "ValueError"
    ELSE LET batch == generate_batch(store, product, current_date,
                                     is_problem_case, rnd)
         IN  IF batch.expiry_date - current_date < 0
             THEN "UnboundLocalError"
             ELSE IF Min(5, current_date - batch.received_date) < 0
             THEN "ValueError"
             ELSE "none"

\* the products batches are generated for: category, subcategory and
\* typical_shelf_life_days at the ends of the range ProductGenerator gives
\* the category (max(1, int(base * uniform(0.9, 1.1)))); the frozen product
\* is one whose batches can be received 17 days ago and expire in 8
BatchProducts ==
    { [product_id |-> 1000, category |-> c[1], subcategory |-> c[2],
       typical_shelf_life_days |-> c[3]] :
        c \in { <<"bakery", "bread", 1>>, <<"bakery", "bread", 2>>,
                <<"bakery", "bread", 3>>, <<"meat", "beef", 2>>,
                <<"meat", "beef", 7>>, <<"dairy", "milk", 6>>,
                <<"dairy", "cheese", 15>>, <<"produce", "fruits", 2>>,
                <<"produce", "fruits", 11>>, <<"dry_goods", "pasta", 328>>,
                <<"pet_food", "dry food", 162>>,
                <<"frozen", "frozen vegetables", 27>> } }

StoreTypes == {"grocery", "pet_food", "convenience"}

\* reliability_score of the suppliers, in hundredths
SupplierReliability == {75, 95}

\* original_price in cents
OriginalPrices == {13, 15, 250, 1999}

\* what the random source can deliver in one call
BatchDraws(product, is_problem_case) ==
    LET iq == initial_quantity_range(product)
        rate == daily_sell_rate_range(product)
        m == max_days_ago(product)
    IN  [ initial_quantity : {iq[1], iq[2]},
          problem_days : IF is_problem_case THEN 1 .. 3 ELSE {0},
          days_ago : IF is_problem_case \/ m < 1 THEN {0}
                     ELSE {1, (1 + m) \div 2, Max(1, m - 1), m},
          shelf_life_variation :
              IF is_problem_case THEN {1000} ELSE Uniform(900, 1100),
          reliability_score :
              IF is_problem_case THEN {95} ELSE SupplierReliability,
          days_until_expiry : IF is_problem_case THEN 1 .. 3 ELSE {0},
          original_price : OriginalPrices,
          round_up : BOOLEAN,
          daily_sell_rate : Uniform(rate[1], rate[2]),
          quantity_below : BOOLEAN,
          last_movement : {0, 5} ]

\* BatchGenerator.__init__ with the store and the product of the call
InitBatch ==
    \E product \in BatchProducts, store_type \in StoreTypes :
        /\ batches = << >>
        /\ product_lookup = [id \in {1000} |-> product]
        /\ store_lookup =
              [id \in {1} |-> [store_id |-> 1, store_type |-> store_type]]
        /\ scores = << >>
        /\ as_of_date = 0
        /\ float_err = 0
        /\ score = NoScore
        /\ result = NoScore
        /\ pc = "idle"
        /\ _pool = None
        /\ pools = << >>
        /\ used = 0
        /\ held = 0
        /\ log = << >>

\* one call generate_batch(store, product, current_date, is_problem_case);
\* result is the batch it returns or the exception it raises
GenerateBatch ==
    /\ pc = "idle"
    /\ \E is_problem_case \in BOOLEAN :
          \E rnd \in BatchDraws(product_lookup[1000], is_problem_case) :
              LET error ==
                      generate_batch_error(store_lookup[1],
                          product_lookup[1000], as_of_date, is_problem_case,
                          rnd)
              IN  IF error # "none"
                  THEN /\ pc' = "batch_raised"
                       /\ result' = [error |-> error]
                  ELSE /\ pc' = "batch_returned"
                       /\ result' =
                             generate_batch(store_lookup[1],
                                 product_lookup[1000], as_of_date,
                                 is_problem_case, rnd)
    /\ UNCHANGED <<batches, product_lookup, store_lookup, scores, as_of_date,
                   float_err, score, _pool, pools, used, held, log>>

NextBatch == GenerateBatch

SpecBatch == InitBatch /\ [][NextBatch]_vars

-----------------------------------------------------------------------------
(* The pipeline of main: BatchGenerator.generate fills the batches, then     *)
(* ScoreGenerator.generate scores them at the same current_date.             *)

\* BatchGenerator.__init__ for the store and the product of the run; the
\* rounding of the velocity division is fixed by the batch to come
InitPipeline ==
    \E product \in BatchProducts, store_type \in StoreTypes :
        /\ batches = << >>
        /\ product_lookup = [id \in {1000} |-> product]
        /\ store_lookup =
              [id \in {1} |-> [store_id |-> 1, store_type |-> store_type]]
        /\ scores = << >>
        /\ as_of_date = 0
        /\ float_err \in {0 - 1, 0}
        /\ score = NoScore
        /\ result = NoScore
        /\ pc = "idle"
        /\ _pool = None
        /\ pools = << >>
        /\ used = 0
        /\ held = 0
        /\ log = << >>

\* one pass of the loop of BatchGenerator.generate: a batch of the store's
\* product, a problem case or not, is generated and appended to
\* self.batches; an exception of generate_batch ends the run
GenerateBatches ==
    /\ pc = "idle"
    /\ \E is_problem_case \in BOOLEAN :
          \E rnd \in BatchDraws(product_lookup[1000], is_problem_case) :
              LET error ==
                      generate_batch_error(store_lookup[1],
                          product_lookup[1000], as_of_date, is_problem_case,
                          rnd)
              IN  IF error # "none"
                  THEN /\ pc' = "batch_raised"
                       /\ result' = [error |-> error]
                       /\ batches' = batches
                  ELSE /\ pc' = "batches"
                       /\ result' = result
                       /\ batches' =
                             Append(batches,
                                 generate_batch(store_lookup[1],
                                     product_lookup[1000], as_of_date,
                                     is_problem_case, rnd))
    /\ UNCHANGED <<product_lookup, store_lookup, scores, as_of_date,
                   float_err, score, _pool, pools, used, held, log>>

\* ScoreGenerator(batches, stores, products).generate() after it
ScoreBatches ==
    /\ pc = "batches"
    /\ Generate

NextPipeline == GenerateBatches \/ ScoreBatches

SpecPipeline == InitPipeline /\ [][NextPipeline]_vars

-----------------------------------------------------------------------------
(* MovementGenerator.generate_movements_for_batch, in app/models/movement.py *)
(* and in app/main.py. A movement is recorded by the quantity it moves (qty, *)
(* quantity) and, in movement.py, by the day of its timestamp; the type,     *)
(* price and reference drawn for it do not enter the split of the items.     *)
(* The outcome of a call holds the list returned, the values remaining_items *)
(* took after each movement, and the exception raised, if any.               *)

\* largest initial_quantity of the batches given to movement.py
MaxMoved == 6

\* largest initial_quantity of the batches given to main.py
MaxSplit == 9

\* START_DATE, the start_date of the calls, as a day number
START_DATE == 0

\* the days random.randint(0, 2) advances current_date by
DateSteps == 0 .. 2

\* batch['initial_quantity'] - batch['current_quantity'], or the share of
\* the initial quantity moved anyway when nothing was (extra is
\* random.random() < 0.2, fraction the uniform(0.1, 0.3) in thousandths)
items_moved(batch, extra, fraction) ==
    IF batch.initial_quantity - batch.current_quantity = 0 /\ extra
    THEN (batch.initial_quantity * fraction) \div 1000
    ELSE batch.initial_quantity - batch.current_quantity

\* min(remaining_items, int(items_moved * 0.5))
max_qty(remaining_items, moved) == Min(remaining_items, moved \div 2)

\* the while loop of movement.py from remaining_items and current_date on:
\* the set of outcomes over the draws of qty and of the days to advance
RECURSIVE movement_loop(_, _, _, _, _, _)
movement_loop(moved, remaining_items, current_date, end_date, batch_movements, remaining) ==
    IF remaining_items > 0 /\ current_date <= end_date
    THEN IF max_qty(remaining_items, moved) < 1
         THEN {[batch_movements |-> batch_movements,
                remaining_items |-> remaining,
                error |-> "ValueError"]}
         ELSE UNION {
                movement_loop(moved, remaining_items - qty,
                    current_date + days, end_date,
                    Append(batch_movements,
                        [qty |-> qty, movement_timestamp |-> current_date]),
                    Append(remaining, remaining_items - qty)) :
                        qty \in 1 .. max_qty(remaining_items, moved),
                        days \in DateSteps }
    ELSE {[batch_movements |-> batch_movements,
           remaining_items |-> remaining,
           error |-> "none"]}

\* MovementGenerator.generate_movements_for_batch of movement.py
MovementGenerator_generate_movements_for_batch(batch, lookup, start_date, end_date, extra, fraction) ==
    LET moved == items_moved(batch, extra, fraction)
        no_movements == {[batch_movements |-> << >>,
                          remaining_items |-> << >>,
                          error |-> "none"]}
    IN  IF batch.product_id \notin DOMAIN lookup
        THEN {[batch_movements |-> << >>, remaining_items |-> << >>,
               error |-> "KeyError"]}
        ELSE IF batch.received_date > end_date THEN no_movements
        ELSE IF moved = 0 THEN no_movements
        ELSE movement_loop(moved, moved,
                 Max(start_date, batch.received_date), end_date,
                 << >>, << >>)

\* the range random.randint draws avg_items_per_movement from
avg_items_per_movement_range(product) ==
    IF high_turnover(product) THEN <<1, 3>>
    ELSE IF product.category \in {"meat", "produce"} THEN <<2, 5>>
    ELSE <<3, 10>>

\* max(1, items_moved // avg_items_per_movement)
num_movements(moved, avg_items_per_movement) ==
    Max(1, moved \div avg_items_per_movement)

\* random.randint(1, max(1, remaining_items // 2)): the range of a movement
\* before the last one
quantity_range(remaining_items) == 1 .. Max(1, remaining_items \div 2)

\* the for loop of main.py from movement i on: the set of outcomes over the
\* draws of quantity; a quantity <= 0 emits no movement
RECURSIVE split_loop(_, _, _, _, _)
split_loop(i, num, remaining_items, batch_movements, remaining) ==
    IF i >= num
    THEN {[batch_movements |-> batch_movements,
           remaining_items |-> remaining,
           error |-> "none"]}
    ELSE UNION {
           split_loop(i + 1, num, remaining_items - quantity,
               IF quantity <= 0 THEN batch_movements
               ELSE Append(batch_movements, [quantity |-> quantity]),
               Append(remaining, remaining_items - quantity)) :
                   quantity \in IF i = num - 1 THEN {remaining_items}
                                ELSE quantity_range(remaining_items) }

\* MovementGenerator.generate_movements_for_batch of main.py; extra is
\* random.random() < 0.2, moved_anyway the items it then moves and
\* avg_items_per_movement the size drawn for the product
generate_movements_for_batch(batch, lookup, start_date, end_date, extra, moved_anyway, avg_items_per_movement) ==
    LET moved == IF batch.initial_quantity - batch.current_quantity = 0
                    /\ extra
                 THEN moved_anyway
                 ELSE batch.initial_quantity - batch.current_quantity
        no_movements == {[batch_movements |-> << >>,
                          remaining_items |-> << >>,
                          error |-> "none"]}
    IN  IF batch.product_id \notin DOMAIN lookup
        THEN {[batch_movements |-> << >>, remaining_items |-> << >>,
               error |-> "KeyError"]}
        ELSE IF batch.received_date > end_date THEN no_movements
        ELSE IF batch.initial_quantity - batch.current_quantity = 0
                /\ extra /\ Min(5, batch.initial_quantity) < 1
        THEN {[batch_movements |-> << >>, remaining_items |-> << >>,
               error |-> "ValueError"]}
        ELSE IF moved = 0 THEN no_movements
        ELSE split_loop(0, num_movements(moved, avg_items_per_movement),
                 moved, << >>, << >>)

\* the products of the batches moved: high, medium and low turnover
MovedProducts ==
    { [product_id |-> 1000, category |-> p[1], subcategory |-> p[2],
       typical_shelf_life_days |-> p[3]] :
          p \in { <<"dairy", "milk", 7>>, <<"meat", "beef", 6>>,
                  <<"dry_goods", "rice", 328>> } }

\* received_date of the batches moved, around START_DATE
MovedReceivedDates == {0 - 1, 0, 2}

\* end_date of the calls
MovedEndDates == {0, 1, 3}

\* the batches of the generator: received with at least 5 items, as
\* generate_batch delivers them, some or none of them gone
MovedBatches(largest) ==
    { [batch_id |-> 1, store_id |-> 1, product_id |-> 1000,
       received_date |-> received, expiry_date |-> received + 7,
       initial_quantity |-> initial, current_quantity |-> current,
       original_price |-> 250, current_price |-> 250, status |-> "active",
       last_movement_date |-> received] :
          received \in MovedReceivedDates, initial \in 5 .. largest,
          current \in 0 .. largest }

\* MovementGenerator.__init__ of movement.py with one batch; as_of_date is
\* the end_date of the call to come
InitMove ==
    \E batch \in MovedBatches(MaxMoved), product \in MovedProducts :
        /\ batch.current_quantity <= batch.initial_quantity
        /\ batches = <<batch>>
        /\ product_lookup = [id \in {1000} |-> product]
        /\ store_lookup = [id \in {1} |-> [store_id |-> 1, store_type |-> "grocery"]]
        /\ scores = << >>
        /\ as_of_date \in MovedEndDates
        /\ float_err = 0
        /\ score = NoScore
        /\ result = NoScore
        /\ pc = "idle"
        /\ _pool = None
        /\ pools = << >>
        /\ used = 0
        /\ held = 0
        /\ log = << >>

\* one call generate_movements_for_batch(batch, START_DATE, end_date) of
\* movement.py; result is its outcome
GenerateMovementsForBatch ==
    /\ pc = "idle"
    /\ \E extra \in BOOLEAN, fraction \in Uniform(100, 300) :
          \E outcome \in MovementGenerator_generate_movements_for_batch(
                             batches[1], product_lookup, START_DATE,
                             as_of_date, extra, fraction) :
              /\ result' = outcome
              /\ pc' = IF outcome.error = "none" THEN "movements"
                        ELSE "movements_raised"
    /\ UNCHANGED <<batches, product_lookup, store_lookup, scores, as_of_date,
                   float_err, score, _pool, pools, used, held, log>>

NextMove == GenerateMovementsForBatch

SpecMove == InitMove /\ [][NextMove]_vars

\* MovementGenerator.__init__ of main.py with one batch
InitSplit ==
    \E batch \in MovedBatches(MaxSplit), product \in MovedProducts :
        /\ batch.current_quantity <= batch.initial_quantity
        /\ batches = <<batch>>
        /\ product_lookup = [id \in {1000} |-> product]
        /\ store_lookup = [id \in {1} |-> [store_id |-> 1, store_type |-> "grocery"]]
        /\ scores = << >>
        /\ as_of_date \in MovedEndDates
        /\ float_err = 0
        /\ score = NoScore
        /\ result = NoScore
        /\ pc = "idle"
        /\ _pool = None
        /\ pools = << >>
        /\ used = 0
        /\ held = 0
        /\ log = << >>

\* one call generate_movements_for_batch(batch, START_DATE, end_date) of
\* main.py; result is its outcome
SplitMovementsForBatch ==
    /\ pc = "idle"
    /\ \E extra \in BOOLEAN,
          moved_anyway \in 1 .. Max(1, Min(5, batches[1].initial_quantity)),
          avg_items_per_movement \in
              avg_items_per_movement_range(product_lookup[1000])[1] ..
                  avg_items_per_movement_range(product_lookup[1000])[2] :
          \E outcome \in generate_movements_for_batch(batches[1],
                             product_lookup, START_DATE, as_of_date, extra,
                             moved_anyway, avg_items_per_movement) :
              /\ result' = outcome
              /\ pc' = IF outcome.error = "none" THEN "movements"
                        ELSE "movements_raised"
    /\ UNCHANGED <<batches, product_lookup, store_lookup, scores, as_of_date,
                   float_err, score, _pool, pools, used, held, log>>

NextSplit == SplitMovementsForBatch

SpecSplit == InitSplit /\ [][NextSplit]_vars

-----------------------------------------------------------------------------
(* DatabaseConnection (app/database/connection.py). _pool is cls._pool: None *)
(* or the pool it refers to, [id |-> n] for the n-th pool created; pools     *)
(* lists the pools created so far, closed or not. used is the number of      *)
(* connections checked out of the pool of _pool (the size of its _used),     *)
(* held the number of them a caller still holds and can give back. log lists *)
(* what the last call did to reach the server: the attempts to connect, each *)
(* with its outcome, and the sleeps. A call is one action; result is what it *)
(* returned (value) or the exception it raised (error).                      *)

\* cls._max_retries
_max_retries == 5

\* maxconn of SimpleConnectionPool(1, 20, connection_string)
maxconn == 20

\* the number of pools created in a run
MaxPools == 2

\* what an attempt to build the pool gives: the pool, an error the except
\* clause catches, or one it does not
ConnectOutcomes == {"connected", "OperationalError", "InterfaceError"}

\* the outcomes the attempts of one call would have, in order; with a pool
\* in place no attempt is made and there is nothing to draw
ConnectDraws(pool) ==
    IF pool = None THEN [1 .. _max_retries -> ConnectOutcomes]
    ELSE {[attempt \in 1 .. _max_retries |-> "connected"]}

\* what pool.getconn() gives when the pool has a connection to give
GetconnOutcomes == {"connection", "OperationalError"}

\* the places where test_connection can fail after it got its connection
TestFailures == {"none", "cursor", "execute", "fetchone", "close"}

\* the loop of get_pool from attempt on (for attempt in range(_max_retries)):
\* a pool built ends it, a caught error sleeps and goes on or, at the last
\* attempt, raises Exception; any other error leaves get_pool at once
RECURSIVE get_pool_attempt(_, _, _, _)
get_pool_attempt(attempt, ps, outcomes, events) ==
    IF attempt >= _max_retries
    THEN [pool |-> None, pools |-> ps, log |-> events, error |-> "none"]
    ELSE LET tried ==
                 Append(events, [event |-> "connect",
                                 outcome |-> outcomes[attempt + 1]])
         IN  IF outcomes[attempt + 1] = "connected"
             THEN [pool |-> [id |-> Len(ps) + 1],
                   pools |-> Append(ps, [closed |-> FALSE]),
                   log |-> tried, error |-> "none"]
             ELSE IF outcomes[attempt + 1]
                        \in {"OperationalError", "DatabaseError"}
             THEN IF attempt < _max_retries - 1
                  THEN get_pool_attempt(attempt + 1, ps, outcomes,
                           Append(tried,
                               [event |-> "sleep", outcome |-> "none"]))
                  ELSE [pool |-> None, pools |-> ps, log |-> tried,
                        error |-> "Exception"]
             ELSE [pool |-> None, pools |-> ps, log |-> tried,
                   error |-> outcomes[attempt + 1]]

\* get_pool giving up one attempt early
get_pool_skipping_an_attempt(pool, ps, outcomes) ==
    IF pool = None
    THEN get_pool_attempt(1, ps, outcomes, << >>)
    ELSE [pool |-> pool, pools |-> ps, log |-> << >>, error |-> "none"]

\* get_pool building a pool whether or not there is one
get_pool_always_connecting(pool, ps, outcomes) ==
    get_pool_attempt(0, ps, outcomes, << >>)

\* get_pool: the pool of cls._pool, built first when cls._pool is None
get_pool(pool, ps, outcomes) ==
    IF pool = None
    THEN get_pool_attempt(0, ps, outcomes, << >>)
    ELSE [pool |-> pool, pools |-> ps, log |-> << >>, error |-> "none"]

\* get_connection: get_pool() then pool.getconn(), which raises PoolError
\* when maxconn connections are checked out; u is the number checked out
get_connection(pool, ps, u, outcomes, getconn) ==
    LET got == get_pool(pool, ps, outcomes)
        checked_out == IF pool = None THEN 0 ELSE u
    IN  IF got.error # "none"
        THEN [pool |-> got.pool, pools |-> got.pools, used |-> checked_out,
              log |-> got.log, error |-> got.error, value |-> None]
        ELSE IF got.pool = None
        THEN [pool |-> got.pool, pools |-> got.pools, used |-> checked_out,
              log |-> got.log, error |-> "AttributeError", value |-> None]
        ELSE IF checked_out >= maxconn
        THEN [pool |-> got.pool, pools |-> got.pools, used |-> checked_out,
              log |-> got.log, error |-> "PoolError", value |-> None]
        ELSE IF getconn # "connection"
        THEN [pool |-> got.pool, pools |-> got.pools, used |-> checked_out,
              log |-> got.log, error |-> getconn, value |-> None]
        ELSE [pool |-> got.pool, pools |-> got.pools,
              used |-> checked_out + 1, log |-> got.log, error |-> "none",
              value |-> [connection_of |-> got.pool.id]]

\* return_connection(conn): putconn when there is a pool; conn is "pooled"
\* for a connection checked out of the pool and "foreign" for any other,
\* which putconn refuses with PoolError
return_connection(pool, u, conn) ==
    IF pool = None THEN [used |-> u, error |-> "none"]
    ELSE IF conn = "pooled" THEN [used |-> u - 1, error |-> "none"]
    ELSE [used |-> u, error |-> "PoolError"]

\* close_pool: closeall() on the pool and cls._pool = None
close_pool(pool, ps) ==
    IF pool = None THEN [pool |-> pool, pools |-> ps]
    ELSE [pool |-> None,
          pools |-> [ps EXCEPT ![pool.id] = [closed |-> TRUE]]]

\* test_connection: fail names the call that raises after the connection
\* was obtained ("none" when all succeed); every exception is caught and
\* gives False, return_connection being reached only when nothing raised
test_connection(pool, ps, u, outcomes, getconn, fail) ==
    LET got == get_connection(pool, ps, u, outcomes, getconn)
    IN  IF got.error # "none"
        THEN [got EXCEPT !.error = "none", !.value = False]
        ELSE IF fail # "none"
        THEN [got EXCEPT !.value = False]
        ELSE [got EXCEPT
                !.used = return_connection(got.pool, got.used, "pooled").used,
                !.value = True]

\* the class as loaded: no pool
InitDb ==
    /\ batches = << >>
    /\ product_lookup = << >>
    /\ store_lookup = << >>
    /\ scores = << >>
    /\ as_of_date = 0
    /\ float_err = 0
    /\ score = NoScore
    /\ result = NoScore
    /\ pc = "idle"
    /\ _pool = None
    /\ pools = << >>
    /\ used = 0
    /\ held = 0
    /\ log = << >>

\* a call of get_pool()
GetPool ==
    /\ _pool # None \/ Len(pools) < MaxPools
    /\ \E outcomes \in ConnectDraws(_pool) :
          LET got == get_pool(_pool, pools, outcomes)
          IN  /\ _pool' = got.pool
              /\ pools' = got.pools
              /\ log' = got.log
              /\ result' = [value |-> got.pool, error |-> got.error]
    /\ pc' = "get_pool"
    /\ UNCHANGED <<batches, product_lookup, store_lookup, scores, as_of_date,
                   float_err, score, used, held>>

\* a call of get_connection(); the caller holds the connection returned
GetConnection ==
    /\ _pool # None \/ Len(pools) < MaxPools
    /\ \E outcomes \in ConnectDraws(_pool), getconn \in GetconnOutcomes :
          /\ getconn = "connection" \/ used >= 1
          /\ LET got == get_connection(_pool, pools, used, outcomes, getconn)
             IN  /\ _pool' = got.pool
                 /\ pools' = got.pools
                 /\ log' = got.log
                 /\ used' = got.used
                 /\ held' = IF got.error = "none" THEN held + 1 ELSE held
                 /\ result' = [value |-> got.value, error |-> got.error]
    /\ pc' = "get_connection"
    /\ UNCHANGED <<batches, product_lookup, store_lookup, scores, as_of_date,
                   float_err, score>>

\* a call of return_connection(conn) with a connection the caller holds or
\* with one that is not of the pool
ReturnConnection ==
    /\ \E conn \in {"pooled", "foreign"} :
          /\ conn = "pooled" => held >= 1
          /\ LET returned == return_connection(_pool, used, conn)
             IN  /\ used' = returned.used
                 /\ held' = IF conn = "pooled" /\ returned.error = "none"
                            THEN held - 1 ELSE held
                 /\ result' = [value |-> None, error |-> returned.error]
    /\ pc' = "return_connection"
    /\ log' = << >>
    /\ UNCHANGED <<batches, product_lookup, store_lookup, scores, as_of_date,
                   float_err, score, _pool, pools>>

\* a call of close_pool(); the connections of a closed pool are closed and
\* the callers drop them
ClosePool ==
    /\ _pool' = close_pool(_pool, pools).pool
    /\ pools' = close_pool(_pool, pools).pools
    /\ used' = IF _pool = None THEN used ELSE 0
    /\ held' = IF _pool = None THEN held ELSE 0
    /\ result' = [value |-> None, error |-> "none"]
    /\ pc' = "close_pool"
    /\ log' = << >>
    /\ UNCHANGED <<batches, product_lookup, store_lookup, scores, as_of_date,
                   float_err, score>>

\* a call of test_connection()
TestConnection ==
    /\ _pool # None \/ Len(pools) < MaxPools
    /\ \E outcomes \in ConnectDraws(_pool), getconn \in GetconnOutcomes,
          fail \in TestFailures :
          /\ getconn = "connection" \/ used >= 1
          /\ LET tested ==
                     test_connection(_pool, pools, used, outcomes, getconn,
                         fail)
             IN  /\ _pool' = tested.pool
                 /\ pools' = tested.pools
                 /\ log' = tested.log
                 /\ used' = tested.used
                 /\ result' = [value |-> tested.value, error |-> tested.error]
    /\ pc' = "test_connection"
    /\ UNCHANGED <<batches, product_lookup, store_lookup, scores, as_of_date,
                   float_err, score, held>>

NextDb ==
    \/ GetPool
    \/ GetConnection
    \/ ReturnConnection
    \/ ClosePool
    \/ TestConnection

SpecDb == InitDb /\ [][NextDb]_vars

-----------------------------------------------------------------------------
(* Properties of generate_score *)

\* the last call of generate_score returned a score record
Returned == pc = "returned"

\* the batch the last returned score was computed for
ScoredBatch ==
    batches[CHOOSE i \in 1 .. Len(batches) :
                batches[i].batch_id = score.batch_id]

\* the product of that batch
ScoredProduct == product_lookup[ScoredBatch.product_id]

\* days on shelf of that batch at the as-of date of the score
ScoredDaysOnShelf == score.scored_at - ScoredBatch.received_date

\* C1: a score computed with days_until_expiry <= 0 has urgency_score 100,
\* predicted_waste_quantity equal to the batch's current_quantity and
\* confidence_level 0.95.
C1_ExpiredBatchScore ==
    (Returned /\ score.days_until_expiry <= 0) =>
        /\ score.urgency_score = 100 * 100
        /\ score.predicted_waste_quantity = ScoredBatch.current_quantity
        /\ score.confidence_level = 95

C1_Witness ==
    /\ Returned
    /\ score.days_until_expiry < 0
    /\ ScoredBatch.current_quantity = 40
    /\ score.predicted_waste_quantity = 40
    /\ score.confidence_level = 95

\* the action table of the specification: the action and discount selected
\* for an urgency u and a velocity v (both in hundredths of a point)
ActionTable(u, v) ==
    CASE u >= 9000 -> <<"immediate_markdown", 50>>
      [] u >= 7000 /\ u < 9000 -> <<"mark_down", 30>>
      [] u >= 5000 /\ u < 7000 -> <<"display_prominently", 20>>
      [] u < 5000 /\ v <= 3000 -> <<"promotional_bundle", 15>>
      [] u < 5000 /\ v > 3000 -> <<"monitor", 0>>

VelocityGrid == {0, 20, 29, 30, 31, 40, 50, 60, 75, 90, 100}

\* C2: the action policy is total and first-match-wins: every returned score
\* carries exactly the action and discount the table gives for its urgency
\* and velocity, the discount is 0 only for monitor, and the policy applied to
\* the score's urgency gives the table's row for every velocity in [0,100].
C2_ActionPolicy ==
    Returned =>
        /\ <<score.recommended_action, score.suggested_discount_percent>>
              = ActionTable(score.urgency_score, score.velocity_score)
        /\ (score.suggested_discount_percent = 0)
              <=> (score.recommended_action = "monitor")
        /\ \A v \in VelocityGrid :
              recommended_action(score.urgency_score * 10, Milli(v))
                = ActionTable(score.urgency_score, v * 100)

\* the bakery scenario: one day to expiry, urgency 75, mark_down at 30%
C2_Witness ==
    /\ Returned
    /\ ScoredProduct.category = "bakery"
    /\ score.days_until_expiry = 1
    /\ ScoredBatch.initial_quantity = 100
    /\ ScoredBatch.current_quantity = 40
    /\ ScoredBatch.current_price = 300
    /\ score.urgency_score = 7500
    /\ score.recommended_action = "mark_down"
    /\ score.suggested_discount_percent = 30

\* the decay rate of the specification, points per day
DecayRate(category) ==
    CASE category \in {"dairy", "meat", "produce"} -> 15
      [] category = "bakery" -> 25
      [] OTHER -> 10

\* C3: for days_until_expiry > 0 the urgency is max(0, 100 - days * r) with
\* r = 15 for dairy, meat and produce, 25 for bakery and 10 otherwise.
C3_UrgencyDecay ==
    (Returned /\ score.days_until_expiry > 0) =>
        score.urgency_score =
            100 * Max(0, 100 - score.days_until_expiry
                                 * DecayRate(ScoredProduct.category))

C3_Witness ==
    /\ Returned
    /\ ScoredProduct.category = "prepared_foods"
    /\ score.days_until_expiry = 3
    /\ score.urgency_score = 7000

\* days until expiry the urgency curve is compared over
DaysRange == (0 - MaxDate - 3) .. (MaxExpiry + 3)

\* C4: for a fixed category the urgency is non-increasing in
\* days_until_expiry over negative, zero and positive days, and stays in
\* [0, 100].
C4_UrgencyMonotone ==
    Returned =>
        /\ score.urgency_score >= 0
        /\ score.urgency_score <= 100 * 100
        /\ \A d \in DaysRange :
              LET u == calculate_urgency_score(d, ScoredProduct.category)
              IN  /\ u >= 0 /\ u <= Milli(100)
                  /\ d <= score.days_until_expiry
                        => u >= score.urgency_score * 10
                  /\ d >= score.days_until_expiry
                        => u <= score.urgency_score * 10

\* a clamped value: eleven days out at 10 points a day
C4_Witness ==
    /\ Returned
    /\ ScoredProduct.category = "dry_goods"
    /\ score.days_until_expiry = 11
    /\ score.urgency_score = 0

\* the economic-risk table of the specification, in hundredths of a point,
\* for a value at risk in cents
EconomicTable(value_at_risk, days_until_expiry, category) ==
    LET base == CASE value_at_risk > 50000 -> 90
                  [] value_at_risk > 20000 /\ value_at_risk <= 50000 -> 75
                  [] value_at_risk > 10000 /\ value_at_risk <= 20000 -> 60
                  [] value_at_risk > 5000 /\ value_at_risk <= 10000 -> 45
                  [] value_at_risk > 2000 /\ value_at_risk <= 5000 -> 30
                  [] value_at_risk <= 2000 -> 15
        by_expiry == CASE days_until_expiry <= 1 -> 12
                       [] days_until_expiry \in 2 .. 3 -> 11
                       [] days_until_expiry \in 4 .. 7 -> 10
                       [] days_until_expiry > 7 -> 8
        by_category == CASE category \in {"meat", "seafood"} -> 12
                         [] category \in {"dairy", "produce"} -> 11
                         [] OTHER -> 10
    IN  Min(100 * 100, base * by_expiry * by_category)

\* C5: the economic risk is min(100, base * expiry_factor * category_factor)
\* with the strict step table over current_quantity * current_price (a value
\* on a breakpoint falls into the lower band), expiry factor 1.2/1.1/1.0/0.8
\* and category factor 1.2/1.1/1.0.
C5_EconomicRisk ==
    Returned =>
        score.economic_risk_score =
            EconomicTable(ScoredBatch.current_quantity
                            * ScoredBatch.current_price,
                          score.days_until_expiry, ScoredProduct.category)

\* dry_goods, 600 units at 1.00, ten days out: 90 * 0.8 * 1.0 = 72
C5_Witness ==
    /\ Returned
    /\ ScoredProduct.category = "dry_goods"
    /\ ScoredBatch.current_quantity = 600
    /\ ScoredBatch.current_price = 100
    /\ score.days_until_expiry = 10
    /\ score.economic_risk_score = 7200

\* C6: 12 <= economic_risk_score <= 100, and 12 is attained exactly by the
\* batches with value at risk <= 20, more than 7 days to expiry and a
\* category outside meat, seafood, dairy and produce.
C6_EconomicRiskRange ==
    Returned =>
        /\ score.economic_risk_score >= 12 * 100
        /\ score.economic_risk_score <= 100 * 100
        /\ (score.economic_risk_score = 12 * 100)
              <=> /\ ScoredBatch.current_quantity
                        * ScoredBatch.current_price <= 2000
                  /\ score.days_until_expiry > 7
                  /\ ScoredProduct.category
                        \notin {"meat", "seafood", "dairy", "produce"}

C6_Witness ==
    /\ Returned
    /\ ScoredBatch.current_quantity = 20
    /\ ScoredBatch.current_price = 100
    /\ score.days_until_expiry > 7
    /\ ScoredProduct.category = "bakery"
    /\ score.economic_risk_score = 1200

\* the velocity score, in points, the threshold table gives a ratio of
\* sold / (days * rate) where rate is a fraction rate.n / rate.d > 0 and
\* below tells whether a ratio on a threshold was computed just below it
VelocityTable(sold, days, rate, below) ==
    LET num == sold * rate.d * 10
        den == days * rate.n
        AtLeast(t) == num > t * den \/ (num = t * den /\ ~below)
    IN  CASE AtLeast(15) -> 90
          [] ~AtLeast(15) /\ AtLeast(10) -> 75
          [] ~AtLeast(10) /\ AtLeast(7) -> 60
          [] ~AtLeast(7) /\ AtLeast(4) -> 40
          [] ~AtLeast(4) -> 20

SpecifiedRate(product) ==
    CASE product.category \in {"dairy", "bakery"}
            /\ product.subcategory \in {"milk", "bread"} -> 20
      [] product.category \in {"meat", "produce"} -> 15
      [] OTHER -> 10

\* C8: the velocity score of a high-turnover product (dairy or bakery with
\* subcategory milk or bread) is computed against initial_quantity * 0.20,
\* that of meat and produce against 0.15 and everything else against 0.10.
C8_ExpectedRate ==
    (Returned /\ ScoredDaysOnShelf > 0 /\ ScoredBatch.initial_quantity > 0) =>
        \E below \in BOOLEAN :
            score.velocity_score =
                100 * VelocityTable(
                          ScoredBatch.initial_quantity
                              - ScoredBatch.current_quantity,
                          ScoredDaysOnShelf,
                          [n |-> ScoredBatch.initial_quantity
                                   * SpecifiedRate(ScoredProduct),
                           d |-> 100],
                          below)

\* C9 as stated: with initial_quantity = 0 the call does not raise and the
\* velocity score is 75 for every as-of date and category.
C9_ZeroInitialAlways75 ==
    (pc # "idle" /\ batches[1].initial_quantity = 0) =>
        /\ Returned
        /\ score.velocity_score = 75 * 100

\* C9 amended: with initial_quantity = 0 the call does not raise; the
\* velocity score is 75 for every as-of date after received_date and 50 for
\* an as-of date on or before received_date, for every category.
C9_ZeroInitialQuantity ==
    (pc # "idle" /\ batches[1].initial_quantity = 0) =>
        /\ Returned
        /\ ScoredDaysOnShelf > 0 => score.velocity_score = 75 * 100
        /\ ScoredDaysOnShelf <= 0 => score.velocity_score = 50 * 100

C9_Witness ==
    /\ Returned
    /\ ScoredBatch.initial_quantity = 0
    /\ ScoredBatch.current_quantity = 0
    /\ ScoredDaysOnShelf > 0
    /\ score.velocity_score = 7500

\* C10: composite_score = urgency_score * 0.4 + economic_risk_score * 0.4
\* + velocity_score * 0.2 of the same score record, with no category
\* multiplier.
C10_CompositeScore ==
    Returned =>
        score.composite_score * 10 =
            score.urgency_score * 4 + score.economic_risk_score * 4
                + score.velocity_score * 2

\* bakery one day out: 75 * 0.4 + 72 * 0.4 + 90 * 0.2 = 76.8
C10_Witness ==
    /\ Returned
    /\ ScoredProduct.category = "bakery"
    /\ score.urgency_score = 7500
    /\ score.economic_risk_score = 7200
    /\ score.velocity_score = 9000
    /\ score.composite_score = 7680

\* the band, in thousandths, the specification draws the waste fraction of
\* a batch with days_until_expiry > 0 from
WasteBand(days_until_expiry, category) ==
    CASE days_until_expiry <= 3 /\ category \in {"bakery", "produce"}
            -> 700 .. 900
      [] days_until_expiry <= 3 /\ category \in {"dairy", "meat"}
            -> 500 .. 700
      [] days_until_expiry <= 3
            /\ category \notin {"bakery", "produce", "dairy", "meat"}
            -> 300 .. 500
      [] days_until_expiry > 3 /\ days_until_expiry <= 7
            /\ category \in {"bakery", "produce"} -> 400 .. 600
      [] days_until_expiry > 3 /\ days_until_expiry <= 7
            /\ category \in {"dairy", "meat"} -> 200 .. 400
      [] days_until_expiry > 3 /\ days_until_expiry <= 7
            /\ category \notin {"bakery", "produce", "dairy", "meat"}
            -> 100 .. 200
      [] days_until_expiry > 7 -> 50 .. 150

\* the band, in hundredths, of the confidence of such a batch
ConfidenceBand(days_until_expiry) ==
    CASE days_until_expiry <= 3 -> 80 .. 90
      [] days_until_expiry > 3 /\ days_until_expiry <= 7 -> 70 .. 80
      [] days_until_expiry > 7 -> 60 .. 70

\* C12: for days_until_expiry > 0 the waste fraction f and the confidence
\* lie in the band of days_until_expiry and category (d <= 3: 0.70-0.90
\* bakery/produce, 0.50-0.70 dairy/meat, 0.30-0.50 otherwise, confidence
\* 0.80-0.90; 3 < d <= 7: 0.40-0.60 / 0.20-0.40 / 0.10-0.20, confidence
\* 0.70-0.80; d > 7: 0.05-0.15, confidence 0.60-0.70) and
\* predicted_waste_quantity = floor(current_quantity * f).
C12_WasteBands ==
    (Returned /\ score.days_until_expiry > 0) =>
        /\ \E f \in WasteBand(score.days_until_expiry,
                               ScoredProduct.category) :
               score.predicted_waste_quantity =
                   (ScoredBatch.current_quantity * f) \div 1000
        /\ score.confidence_level \in ConfidenceBand(score.days_until_expiry)

\* 100 loaves one day from expiry, the draw at the top of 0.70-0.90
C12_Witness ==
    /\ Returned
    /\ ScoredProduct.category = "bakery"
    /\ score.days_until_expiry = 1
    /\ ScoredBatch.current_quantity = 100
    /\ score.predicted_waste_quantity = 90
    /\ score.confidence_level = 80

\* C13: generate_score returns a score record and never raises for a batch
\* whose product is known, whatever the quantities (zero included) and
\* wherever the as-of date lies relative to received_date and expiry_date.
C13_NeverRaises ==
    pc # "idle" =>
        /\ pc = "returned"
        /\ score # NoScore
        /\ score.batch_id = batches[1].batch_id

\* nothing received, nothing left, scored on the day of receipt, which is
\* before the expiry date
C13_Witness ==
    /\ Returned
    /\ ScoredBatch.initial_quantity = 0
    /\ ScoredBatch.current_quantity = 0
    /\ ScoredDaysOnShelf = 0
    /\ score.days_until_expiry > 0

\* C14: two calls of generate_score for the same batch, category and as-of
\* date give the same urgency, economic risk, velocity and composite
\* scores, days_until_expiry, action and discount, whatever the random
\* source returns; only the predicted waste and the confidence may differ.
C14_SubScoresDeterministic ==
    [][(Returned /\ Returned') =>
          /\ score'.urgency_score = score.urgency_score
          /\ score'.economic_risk_score = score.economic_risk_score
          /\ score'.velocity_score = score.velocity_score
          /\ score'.composite_score = score.composite_score
          /\ score'.days_until_expiry = score.days_until_expiry
          /\ score'.recommended_action = score.recommended_action
          /\ score'.suggested_discount_percent
                = score.suggested_discount_percent]_vars

\* a call whose draws are not the lowest of their ranges: the same batch
\* has other returned records, which differ in waste and confidence
C14_Witness ==
    /\ Returned
    /\ score.days_until_expiry = 1
    /\ ScoredBatch.current_quantity = 200
    /\ score.predicted_waste_quantity
          > (200 * waste_percent_range(1, ScoredProduct.category)[1])
                \div 1000
    /\ score.confidence_level = 90

\* C15: a call of generate_score leaves the batch record, the product
\* lookup and the batches list as they were and adds nothing to
\* self.scores.
C15_InputsUnchanged ==
    [][pc' \in {"returned", "raised"} =>
          /\ batches' = batches
          /\ product_lookup' = product_lookup
          /\ scores' = scores]_vars

\* after a call that returned: the batch is the one set up and self.scores
\* is still empty
C15_Witness ==
    /\ Returned
    /\ score.batch_id = 1
    /\ batches[1].status = "active"
    /\ batches[1].current_quantity = 40
    /\ Len(scores) = 0

\* C25: the composite score of generate_score is bounded for every input:
\* 8.8 <= composite_score <= 98, so it never exceeds 100.
C25_CompositeBounds ==
    Returned =>
        /\ score.composite_score >= 880
        /\ score.composite_score <= 9800

\* the upper end: expired meat (urgency 100), 200 of 600 left at 3.00
\* (economic risk cut off at 100), sold fast (velocity 90)
C25_Witness ==
    /\ Returned
    /\ score.urgency_score = 10000
    /\ score.economic_risk_score = 10000
    /\ score.velocity_score = 9000
    /\ score.composite_score = 9800

\* C28: for every batch, as-of date and random draw, 0 <=
\* predicted_waste_quantity <= current_quantity and predicted_waste_value <=
\* revenue_at_risk, with revenue_at_risk = current_quantity * current_price
\* and predicted_waste_value = predicted_waste_quantity * current_price.
C28_WasteWithinStock ==
    Returned =>
        /\ 0 <= score.predicted_waste_quantity
        /\ score.predicted_waste_quantity <= ScoredBatch.current_quantity
        /\ score.revenue_at_risk
              = ScoredBatch.current_quantity * ScoredBatch.current_price
        /\ score.predicted_waste_value
              = score.predicted_waste_quantity * ScoredBatch.current_price
        /\ score.predicted_waste_value <= score.revenue_at_risk

\* the largest fraction drawn: 540 of 600 units two days before expiry
C28_Witness ==
    /\ Returned
    /\ score.days_until_expiry = 2
    /\ ScoredBatch.current_quantity = 600
    /\ score.predicted_waste_quantity = 540
    /\ score.predicted_waste_value < score.revenue_at_risk

-----------------------------------------------------------------------------
(* Properties of the alternate scorer *)

\* generate_batch_scores has returned its list
Scored == pc = "scored"

\* C16: BatchScore.calculate_urgency_score gives 100 for
\* days_until_expiry <= 0 and otherwise max(0, 100 - days_until_expiry * r)
\* with r = 15 for dairy, meat and produce, 25 for bakery and 10 for every
\* other category, as calculate_urgency_score of app/main.py does.
C16_AlternateUrgency ==
    Scored =>
        LET d == result[1].days_until_expiry
            category == product_lookup[batches[1].product_id].category
        IN  /\ result[1].urgency_score
                  = IF d <= 0 THEN 100
                    ELSE Max(0, 100 - d * DecayRate(category))
            /\ Milli(result[1].urgency_score)
                  = calculate_urgency_score(d, category)

\* the category weight of the specification, in tenths
SpecifiedWeight(category) ==
    CASE category = "dairy" -> 12
      [] category = "meat" -> 13
      [] category = "produce" -> 11
      [] category = "bakery" -> 9
      [] category = "shelf_stable" -> 7
      [] category \notin {"dairy", "meat", "produce", "bakery",
                          "shelf_stable"} -> 10

\* C19: the composite of generate_batch_scores is (urgency * 0.4 +
\* economic * 0.3 + velocity * 0.3) * category_weight of the same record,
\* with weights dairy 1.2, meat 1.3, produce 1.1, bakery 0.9,
\* prepared_foods 1.0, shelf_stable 0.7 and 1.0 otherwise, and it is not
\* cut off at 100.
C19_AlternateComposite ==
    Scored =>
        LET s == result[1]
            category == product_lookup[batches[1].product_id].category
        IN  /\ s.composite_score.d = 100000 * s.velocity_score.d
            /\ s.composite_score.n =
                  (4 * s.urgency_score * 1000 * s.velocity_score.d
                      + 3 * s.economic_risk_score * s.velocity_score.d
                      + 3 * s.velocity_score.n * 1000)
                  * SpecifiedWeight(category)

\* expired meat, 200 of 600 left at 3.00: (46 + 18 + 30) * 1.3 = 122.2
C19_Witness ==
    /\ Scored
    /\ product_lookup[batches[1].product_id].category = "meat"
    /\ result[1].days_until_expiry = 0 - 1
    /\ result[1].revenue_at_risk = 60000
    /\ result[1].composite_score.n > 100 * result[1].composite_score.d
    /\ result[1].composite_score.n * 10 = 1222 * result[1].composite_score.d

\* C27: in generate_batch_scores the action is 'DISCOUNT' exactly when
\* composite > 70, and then suggested_discount_percent is 50; otherwise the
\* action is 'MONITOR', suggested_discount_percent is None and the
\* predicted waste quantity and value are 0.
C27_DiscountPolicy ==
    Scored =>
        LET s == result[1]
            above == s.composite_score.n > 70 * s.composite_score.d
        IN  /\ above =>
                  /\ s.recommended_action = "DISCOUNT"
                  /\ s.suggested_discount_percent = 50
            /\ ~above =>
                  /\ s.recommended_action = "MONITOR"
                  /\ s.suggested_discount_percent = None
                  /\ s.predicted_waste_quantity = 0
                  /\ s.predicted_waste_value = 0

\* a composite between 70 and 80, where composite - 20 would be below 60
C27_Witness ==
    /\ Scored
    /\ result[1].composite_score.n > 70 * result[1].composite_score.d
    /\ result[1].composite_score.n < 80 * result[1].composite_score.d
    /\ result[1].recommended_action = "DISCOUNT"
    /\ result[1].suggested_discount_percent = 50
    /\ result[1].predicted_waste_quantity > 0

-----------------------------------------------------------------------------
(* Properties of generate_batch *)

\* generate_batch has returned a batch
BatchReturned == pc = "batch_returned"

\* C17: every batch generate_batch returns, problem case or not and for
\* every shelf life, satisfies the ProductBatch rules: 0 <=
\* current_quantity <= initial_quantity, expiry_date > received_date,
\* current_price <= original_price and a status of the five allowed.
C17_ValidBatch ==
    BatchReturned =>
        /\ 0 <= result.current_quantity
        /\ result.current_quantity <= result.initial_quantity
        /\ result.expiry_date > result.received_date
        /\ result.current_price <= result.original_price
        /\ result.status \in {"active", "marked_down", "expired",
                               "out_of_stock", "recalled"}

\* a problem case of a product with one day of shelf life, received on the
\* current date: nothing sold yet, marked down
C17_Witness ==
    /\ BatchReturned
    /\ product_lookup[1000].typical_shelf_life_days = 1
    /\ result.received_date = as_of_date
    /\ result.expiry_date = as_of_date + 1
    /\ result.current_quantity = result.initial_quantity
    /\ result.status = "marked_down"

\* C20: a batch generate_batch returns with an expiry date before the
\* current date (days_until_expiry < 0) has current_quantity 0 and status
\* 'expired'.
C20_ExpiredBatch ==
    (BatchReturned /\ result.expiry_date < as_of_date) =>
        /\ result.current_quantity = 0
        /\ result.status = "expired"

\* C20, its case: generate_batch never computes days_until_expiry < 0. No
\* call returns a batch that expired before the current date and none ends
\* in the UnboundLocalError the expired branch would lead to (it leaves
\* days_on_shelf unassigned, which last_movement_date reads).
C20_ExpiredBranchNotTaken ==
    /\ BatchReturned => result.expiry_date >= as_of_date
    /\ pc = "batch_raised" => result.error # "UnboundLocalError"

\* C29: generate_batch returns a batch without raising for every product
\* with typical_shelf_life_days >= 1, problem case or not, and for every
\* random draw.
C29_BatchNeverRaises ==
    pc # "idle" => BatchReturned

-----------------------------------------------------------------------------
(* Properties of generate *)

\* the last call of generate returned its list
Generated == pc = "generated"

\* the batches generate scores
Eligible(batch) == batch.status = "active" /\ batch.current_quantity > 0

\* the number of records of the returned list for a batch
ScoresOf(batch) ==
    Cardinality({k \in 1 .. Len(result) :
                    result[k].batch_id = batch.batch_id})

\* C11: recommended_action and suggested_discount_percent depend only on
\* urgency_score and velocity_score: two scored batches with equal urgency
\* and equal velocity have the same action and discount, whatever their
\* economic risk, composite, quantity and price.
C11_ActionOfUrgencyAndVelocity ==
    \A i, j \in 1 .. Len(scores) :
        (/\ scores[i].urgency_score = scores[j].urgency_score
         /\ scores[i].velocity_score = scores[j].velocity_score) =>
            /\ scores[i].recommended_action = scores[j].recommended_action
            /\ scores[i].suggested_discount_percent
                  = scores[j].suggested_discount_percent

\* two batches of one run, equal in urgency and velocity, with economic
\* risk and composite on either side of 50, and the same action
C11_Witness ==
    /\ Generated
    /\ Len(scores) = 2
    /\ scores[1].batch_id # scores[2].batch_id
    /\ scores[1].urgency_score = scores[2].urgency_score
    /\ scores[1].velocity_score = scores[2].velocity_score
    /\ scores[1].revenue_at_risk # scores[2].revenue_at_risk
    /\ scores[1].economic_risk_score # scores[2].economic_risk_score
    /\ scores[1].composite_score < 5000
    /\ scores[2].composite_score > 5000
    /\ scores[1].recommended_action = scores[2].recommended_action

\* C18: the list a call of generate returns holds exactly one score for
\* every batch with status 'active' and current_quantity > 0 and none for
\* any other batch, in the first call and in every later call on the same
\* generator (no batch_id twice).
C18_OneScorePerBatch ==
    Generated =>
        \A i \in 1 .. Len(batches) :
            ScoresOf(batches[i]) = IF Eligible(batches[i]) THEN 1 ELSE 0

-----------------------------------------------------------------------------
(* Properties of the pipeline *)

\* C26: a batch of generate_batch with days_until_expiry <= 7 and
\* original_price >= 0.06 has status 'marked_down' and is not scored; every
\* score of generate at the same current_date has days_until_expiry >= 8,
\* urgency_score <= 20 and recommended_action monitor or
\* promotional_bundle.
C26_NoUrgentScore ==
    /\ \A i \in 1 .. Len(batches) :
          (/\ batches[i].expiry_date - as_of_date <= 7
           /\ batches[i].original_price >= 6) =>
              /\ batches[i].status = "marked_down"
              /\ \A k \in 1 .. Len(scores) :
                    scores[k].batch_id # batches[i].batch_id
    /\ \A k \in 1 .. Len(scores) :
          /\ scores[k].days_until_expiry >= 8
          /\ scores[k].urgency_score <= 20 * 100
          /\ scores[k].recommended_action
                \in {"monitor", "promotional_bundle"}

\* a frozen batch received 17 days ago with 8 days left: still active,
\* scored with urgency 20 at the edge of both bounds
C26_Witness ==
    /\ Generated
    /\ Len(scores) = 1
    /\ batches[1].status = "active"
    /\ scores[1].batch_id = batches[1].batch_id
    /\ scores[1].days_until_expiry = 8
    /\ scores[1].urgency_score = 20 * 100
    /\ scores[1].recommended_action \in {"monitor", "promotional_bundle"}

-----------------------------------------------------------------------------
(* Properties of the movement generators *)

\* a call of generate_movements_for_batch has ended
Moved == pc \in {"movements", "movements_raised"}

\* the sum of the quantities of a list of movements of movement.py
RECURSIVE SumQty(_)
SumQty(ms) == IF ms = << >> THEN 0 ELSE Head(ms).qty + SumQty(Tail(ms))

\* the sum of the quantities of a list of movements of main.py
RECURSIVE SumQuantity(_)
SumQuantity(ms) ==
    IF ms = << >> THEN 0 ELSE Head(ms).quantity + SumQuantity(Tail(ms))

\* C21: for a batch with initial_quantity - current_quantity >= 1 and
\* received_date <= end_date, generate_movements_for_batch of movement.py
\* returns without error movements of quantity >= 1 each whose quantities
\* sum to exactly the items moved
C21_AllItemsMoved ==
    (/\ Moved
     /\ batches[1].initial_quantity - batches[1].current_quantity >= 1
     /\ batches[1].received_date <= as_of_date) =>
        /\ result.error = "none"
        /\ SumQty(result.batch_movements) =
              batches[1].initial_quantity - batches[1].current_quantity
        /\ \A k \in 1 .. Len(result.batch_movements) :
              result.batch_movements[k].qty >= 1

\* C22: for a batch with items moved, the quantities of the movements
\* generate_movements_for_batch of main.py emits sum to exactly the items
\* moved and remaining_items is never negative
C22_SplitAccountsForItems ==
    (/\ Moved
     /\ batches[1].initial_quantity - batches[1].current_quantity >= 1
     /\ batches[1].received_date <= as_of_date) =>
        /\ result.error = "none"
        /\ SumQuantity(result.batch_movements) =
              batches[1].initial_quantity - batches[1].current_quantity
        /\ \A k \in 1 .. Len(result.remaining_items) :
              result.remaining_items[k] >= 0

-----------------------------------------------------------------------------
(* Properties of DatabaseConnection *)

\* the positions of the attempts to connect in the log of the last call
Attempts == {k \in 1 .. Len(log) : log[k].event = "connect"}

\* the positions of the sleeps in the log of the last call
Sleeps == {k \in 1 .. Len(log) : log[k].event = "sleep"}

\* the pools that exist: created and not closed
OpenPools == {n \in 1 .. Len(pools) : ~pools[n].closed}

\* C23: a call of get_pool whose attempts all fail with OperationalError or
\* DatabaseError makes exactly 5 attempts with a sleep between consecutive
\* ones (4 sleeps), raises and leaves _pool None; an attempt that succeeds
\* is the last one made
C23_BoundedRetries ==
    (pc = "get_pool" /\ log # << >>) =>
        /\ (\A k \in Attempts :
                log[k].outcome \in {"OperationalError", "DatabaseError"}) =>
              /\ Cardinality(Attempts) = 5
              /\ Cardinality(Sleeps) = 4
              /\ \A k \in 1 .. Len(log) :
                    log[k].event = IF k % 2 = 1 THEN "connect" ELSE "sleep"
              /\ result.error = "Exception"
              /\ _pool = None
        /\ \A k \in Attempts :
              log[k].outcome = "connected" =>
                  /\ k = Len(log)
                  /\ result = [value |-> _pool, error |-> "none"]
                  /\ _pool # None

\* five attempts failed, four sleeps between them, and get_pool raised
C23_Witness ==
    /\ pc = "get_pool"
    /\ Cardinality(Attempts) = 5
    /\ Cardinality(Sleeps) = 4
    /\ \A k \in Attempts : log[k].outcome = "OperationalError"
    /\ result.error = "Exception"
    /\ _pool = None

\* C24: at most one pool exists at a time and cls._pool refers to it; a
\* pool is created only when _pool is None; while _pool is set, get_pool
\* returns that pool without an attempt to connect
C24_SingletonPool ==
    [][/\ Cardinality(OpenPools') <= 1
       /\ OpenPools' = IF _pool' = None THEN {} ELSE {_pool'.id}
       /\ Len(pools') > Len(pools) =>
             /\ _pool = None
             /\ Len(pools') = Len(pools) + 1
       /\ (_pool # None /\ pc' = "get_pool") =>
             /\ _pool' = _pool
             /\ pools' = pools
             /\ result' = [value |-> _pool, error |-> "none"]
             /\ log' = << >>]_vars

\* a second pool, created after the first was closed, returned by get_pool
\* without an attempt to connect
C24_Witness ==
    /\ pc = "get_pool"
    /\ Len(pools) = 2
    /\ pools[1].closed
    /\ _pool = [id |-> 2]
    /\ result = [value |-> _pool, error |-> "none"]
    /\ log = << >>

\* C30: a call of test_connection leaves the number of checked-out
\* connections as it found it
C30_NoLeakedConnection == [][pc' = "test_connection" => used' = used]_vars

====
